---- MODULE Spec2Model ----
(***************************************************************************)
(* Push notification delivery and badge synchronisation of the             *)
(* ProgressiveWebPwa application: the server's subscription store and      *)
(* fan-out sender, the client's subscription manager, and the badge        *)
(* writers (service worker and views).                                     *)
(***************************************************************************)
EXTENDS Integers, Sequences, FiniteSets, TLC

(* ------------------------------ bounds --------------------------------- *)
\* rows the push_subscriptions table may hold
MaxSubs == 2
\* POST /api/notifications/send requests issued in one behaviour
MaxSends == 2
\* send requests that may be in progress at the same time
MaxInFlight == 1
\* subscribe / refresh calls the device makes in one behaviour
MaxCalls == 3
\* notification records the badge behaviours send
MaxRecords == 2
\* service worker activations in one behaviour
MaxActivations == 1
\* messages queued between the service worker and the view, per direction
MaxMsgs == 2
\* milliseconds the server clock advances
MaxClock == 1
\* the largest count passed to setAppBadge
MaxCount == 2
\* open views (window clients) of the installed app
MaxViews == 2
\* message listeners registered in a view
MaxListeners == 2

(* --------------------------- program values ---------------------------- *)
\* the users table holds one user, id 1; NoUser is an absent / unknown userId
Users == {1}
NoUser == 0
\* a subscription JSON is identified by its endpoint; NoEndpoint is a JSON
\* value without an endpoint field (the jsonb column accepts any JSON)
NoEndpoint == 0
ServerEndpoints == {NoEndpoint, 1}
\* HTTP status codes a push service answers a dispatch with
Created == 201
Gone == 410
NotFound == 404
TooManyRequests == 429
ServerError == 500
PushStatusCodes == {Created, Gone, NotFound, TooManyRequests, ServerError}

VARIABLES
  pushSubscriptions,  \* the push_subscriptions table: sequence of rows
  notifications,      \* the notifications table: sequence of rows
  sendReqs,           \* the POST /api/notifications/send requests
  platformSub,        \* the device's push registration (pushManager), 0: none
  endpointSeq,        \* endpoints the push service has issued to the device
  permission,         \* Notification.permission
  isSubscribed,       \* the notifications view's isSubscribed state
  calls,              \* the client's subscribe / refresh calls
  badge,              \* the number on the app icon, 0: no badge
  cache,              \* the worker's cached GET /api/notifications response
  pushOps,            \* the worker's push handlers, one per delivered push
  resyncOps,          \* the view's SW_ACTIVATED handlers
  inbox,              \* messages posted by the worker to the view
  swInbox,            \* messages posted by the view to the worker
  badgeBy,            \* history: the operation that last wrote the badge
  sinceSend,          \* history: a trigger started after the last send
  ios,                \* the device is an iPhone / iPad (user agent test)
  showOp,             \* the view's SHOW_NOTIFICATION handler
  reprompted,         \* history: permission was requested while denied
  displayFailed,      \* history: a native display of a push has thrown
  toast,              \* the last toast the notifications page has shown
  badging,            \* the platform has the Badging API
  lib,                \* one call of the badge library, attempt by attempt
  clock,              \* the server's wall clock, in milliseconds
  listResponse,       \* the last answer of GET /api/notifications (ids)
  vapid,              \* both VAPID keys are in the server's environment
  session,            \* the session of the client that sends requests
  viewInbox,          \* per view, the messages the worker posted to it
  workerInbox,        \* the messages the views posted to the worker
  listeners,          \* the message listeners registered in each view
  handled,            \* the last UPDATE_BADGE a view has handled
  listBody,           \* a body answered to GET /api/notifications
  derived             \* the count each consumer has derived from the answer

serverVars == <<pushSubscriptions, notifications, sendReqs>>
subVars == <<platformSub, endpointSeq, permission, isSubscribed, calls>>
badgeVars == <<badge, cache, pushOps, resyncOps, inbox, swInbox, badgeBy, sinceSend>>
libVars == <<badging, lib>>
deviceVars == <<ios, showOp, reprompted, displayFailed, toast, libVars>>
listVars == <<clock, listResponse>>
countVars == <<listBody, derived>>
viewsVars == <<viewInbox, workerInbox, listeners, handled>>
configVars == <<vapid, session, countVars, viewsVars>>
clientVars == <<subVars, badgeVars, deviceVars>>
vars == <<pushSubscriptions, notifications, sendReqs,
          platformSub, endpointSeq, permission, isSubscribed, calls,
          badge, cache, pushOps, resyncOps, inbox, swInbox, badgeBy, sinceSend,
          ios, showOp, reprompted, displayFailed, toast, badging, lib,
          clock, listResponse, vapid, session, listBody, derived,
          viewInbox, workerInbox, listeners, handled>>

(* ------------------------------ storage -------------------------------- *)
\* the rows a sequence holds, as a set
Rows(table) == {table[i] : i \in 1..Len(table)}

\* storage.getUser
getUser(userId) == userId \in Users

\* storage.createPushSubscription: one insert, serial id, active defaults true
createPushSubscription(table, data) ==
  Append(table, [id |-> Len(table) + 1, userId |-> data.userId,
                 subscription |-> data.subscription, active |-> TRUE])

\* storage.getActivePushSubscriptions: the rows flagged active
getAllPushSubscriptions(table) == Rows(table)

getActivePushSubscriptions(table) == {row \in Rows(table) : row.active}

\* req.session of a request: none, a signed-in user, a signed-in admin
Sessions == {"none", "user", "admin"}

\* the status of a request to a route that is not mounted
RouteMissing == 404

\* registerRoutes returns before it mounts the notification routes when a
\* VAPID key is absent
NotificationRoutesMounted(keys) == keys

\* POST /api/notifications/subscribe: the table and the status it answers
SubscribeHandler(table, userId, subscription) ==
  IF ~NotificationRoutesMounted(vapid)
    THEN [table |-> table, status |-> RouteMissing]
  ELSE IF ~getUser(userId)
    THEN [table |-> table, status |-> 400]
    ELSE [table |-> createPushSubscription(table,
                      [userId |-> userId, subscription |-> subscription]),
          status |-> 200]

(* ------------------------------ fan-out -------------------------------- *)
IdleReq == [pc |-> "idle", subs |-> {}, results |-> <<>>, status |-> 0, sent |-> 0]

\* the promise each element of subscriptions.map(...) yields, every element
\* being visited: resolved null at once for a subscription without endpoint
\* ("null") or when webpush.sendNotification throws synchronously ("threw"),
\* else the pending webpush.sendNotification
StartDispatchesFailFast(subs, thrown) ==
  [row \in subs |->
     IF \E t \in thrown : t.id < row.id THEN "null"
     ELSE IF row.subscription = NoEndpoint THEN "null"
     ELSE IF row \in thrown THEN "threw" ELSE "pending"]

StartDispatches(subs, thrown) ==
  [row \in subs |->
     IF row.subscription = NoEndpoint THEN "null"
     ELSE IF row \in thrown THEN "threw" ELSE "pending"]

\* how a dispatch settled: .then(result => result) keeps the result ("sent");
\* .catch(error => null) yields null, remembered here as "gone" for a 410 and
\* "failed" for any other status, or "null" when no dispatch was made
SettledValue(statusCode) ==
  IF statusCode >= 200 /\ statusCode < 300 THEN "sent"
  ELSE IF statusCode = Gone THEN "gone" ELSE "failed"

\* the per-endpoint catch: every status code is only logged
OnDispatchError(table, row, statusCode) == table

\* if (subscriptions.length === 0)
NoSubscribersNever(subs) == FALSE

NoSubscribers(subs) == Cardinality(subs) = 0

\* db.insert(schema.notifications).values({...}).returning(): one row
\* with the next serial id and createdAt: new Date()
insertNotificationTwice(table) ==
  Append(Append(table, [id |-> Len(table) + 1, createdAt |-> clock]),
         [id |-> Len(table) + 2, createdAt |-> clock])

insertNotification(table) ==
  Append(table, [id |-> Len(table) + 1, createdAt |-> clock])

\* the rows of a table in some order
Orderings(table) ==
  {s \in [1..Len(table) -> Rows(table)] :
     \A i, j \in 1..Len(table) : i # j => s[i] # s[j]}

\* select().from(notifications).orderBy(desc(notifications.createdAt)): the
\* answers the database may give; rows with equal createdAt come in any order
getNotifications(table) ==
  {s \in Orderings(table) :
     \A i, j \in 1..Len(table) : i < j => s[i].createdAt >= s[j].createdAt}

\* results.filter(Boolean).length
successCountAll(results) == Cardinality(DOMAIN results)

successCount(results) == Cardinality({row \in DOMAIN results : results[row] = "sent"})

\* the requests between their first await and their response
InFlight == {r \in 1..MaxSends : sendReqs[r].pc \in {"loaded", "awaiting"}}

IdleCall == [kind |-> "none", pc |-> "idle", userId |-> NoUser, sub |-> 0, old |-> 0,
             found |-> FALSE, result |-> "none", cause |-> "none", error |-> <<>>]

\* caches.match() finds no stored response
NoCache == -1
\* a push handler / an activation handler that is not running
IdlePush == [pc |-> "none", count |-> 0]
IdleResync == [pc |-> "none", count |-> 0, truthful |-> FALSE]
NoWriter == [kind |-> "none", truthful |-> FALSE]
\* the JSON body of an answer: an array of items, or something else
ListAnswer(items) == [array |-> TRUE, items |-> items]
NotAnArray == [array |-> FALSE, items |-> <<>>]
Answers ==
  {NotAnArray} \cup {ListAnswer([i \in 1..n |-> [id |-> i]]) : n \in 0..MaxRecords}
\* the open views of the app
Views == 1..MaxViews
\* no view has handled an UPDATE_BADGE message
NoHandled == [view |-> 0, count |-> 0, before |-> 0, wrote |-> FALSE]
\* the listener main.tsx registers, alone
OneListener == listeners = 1
\* the readers of GET /api/notifications
Consumers == {"push", "click", "page", "resync", "show", "admin"}
\* a consumer has derived nothing yet
NoCount == -1
\* no library call has been made
IdleLib == [op |-> "none", count |-> 0, pc |-> "idle", attempt |-> 0, calls |-> 0,
            told |-> FALSE]

\* what every behaviour starts with: no records, nothing in progress
InitIdle ==
  /\ notifications = <<>>
  /\ sendReqs = [r \in 1..MaxSends |-> IdleReq]
  /\ calls = [c \in 1..MaxCalls |-> IdleCall]
  /\ badge = 0
  /\ cache = NoCache
  /\ pushOps = [p \in 1..MaxRecords |-> IdlePush]
  /\ resyncOps = [a \in 1..MaxActivations |-> IdleResync]
  /\ inbox = <<>>
  /\ swInbox = <<>>
  /\ badgeBy = NoWriter
  /\ sinceSend = FALSE
  /\ showOp = IdlePush
  /\ reprompted = FALSE
  /\ displayFailed = FALSE
  /\ toast = "none"
  /\ lib = IdleLib
  /\ derived = [consumer \in Consumers |-> NoCount]
  /\ viewInbox = [v \in Views |-> <<>>]
  /\ workerInbox = <<>>
  /\ handled = NoHandled
  /\ clock = 0
  /\ listResponse = <<>>

\* the server has its keys and the requests come from an admin's session
Configured == vapid = TRUE /\ session = "admin" /\ listBody = ListAnswer(<<>>)

\* a freshly installed app: no permission asked, no registration, empty tables
InitFresh ==
  /\ InitIdle
  /\ pushSubscriptions = <<>>
  /\ platformSub = 0
  /\ endpointSeq = 0
  /\ permission = "default"
  /\ isSubscribed = FALSE

\* a fresh app on a device of either kind
Init == InitFresh /\ Configured /\ OneListener /\ ios \in BOOLEAN /\ badging = TRUE

\* the server with empty tables; no route reads the kind of the device
InitServer == InitFresh /\ Configured /\ OneListener /\ ios = FALSE /\ badging = TRUE

\* the server with or without its keys, asked by a client with any session
InitConfig ==
  /\ InitFresh
  /\ ios = FALSE
  /\ badging = TRUE
  /\ vapid \in BOOLEAN
  /\ session \in Sessions
  /\ listBody = ListAnswer(<<>>)
  /\ OneListener

\* the state a granted, completed subscribe leaves: the device holds
\* registration 1 and the server its row
InitSubscribed ==
  /\ InitIdle
  /\ Configured
  /\ pushSubscriptions = <<[id |-> 1, userId |-> 1, subscription |-> 1, active |-> TRUE]>>
  /\ platformSub = 1
  /\ endpointSeq = 1
  /\ permission = "granted"
  /\ isSubscribed = TRUE

\* a subscribed device that is not an iPhone / iPad
InitBadge == InitSubscribed /\ OneListener /\ ios = FALSE /\ badging = TRUE

\* a subscribed device of either kind
InitDevice == InitSubscribed /\ OneListener /\ ios \in BOOLEAN /\ badging = TRUE

\* a subscribed device of either kind, with the Badging API or without
InitLib == InitSubscribed /\ OneListener /\ ios \in BOOLEAN /\ badging \in BOOLEAN

\* a subscribed device whose views have the listener of main.tsx and, with
\* the notifications page open, the listener of the page
InitViews ==
  /\ InitSubscribed
  /\ ios = FALSE
  /\ badging = TRUE
  /\ listeners \in 1..MaxListeners

\* a body of any kind has been answered to GET /api/notifications
InitCount ==
  /\ InitFresh
  /\ ios = FALSE
  /\ badging = TRUE
  /\ vapid = TRUE
  /\ session = "admin"
  /\ listBody \in Answers
  /\ OneListener

\* a client posts a subscription (any JSON) for a user id
PostSubscribe(userId, subscription) ==
  /\ Len(pushSubscriptions) < MaxSubs
  /\ pushSubscriptions' = SubscribeHandler(pushSubscriptions, userId, subscription).table
  /\ UNCHANGED <<notifications, sendReqs, clientVars, listVars, configVars>>

\* send: await storage.getActivePushSubscriptions(), then the empty check
SendLoad(r, dbOk) ==
  /\ sendReqs[r].pc = "idle"
  /\ IF r = 1 THEN TRUE ELSE sendReqs[r - 1].pc # "idle"
  /\ Cardinality(InFlight) < MaxInFlight
  /\ LET subs == getActivePushSubscriptions(pushSubscriptions) IN
       sendReqs' = [sendReqs EXCEPT ![r] =
         IF ~NotificationRoutesMounted(vapid)
           THEN [@ EXCEPT !.pc = "done", !.status = RouteMissing]
         ELSE IF ~dbOk THEN [@ EXCEPT !.pc = "done", !.status = 500]
         ELSE IF NoSubscribers(subs) THEN [@ EXCEPT !.pc = "done", !.status = 400]
         ELSE [@ EXCEPT !.pc = "loaded", !.subs = subs]]
  /\ UNCHANGED <<pushSubscriptions, notifications, clientVars, listVars, configVars>>

\* send: await db.insert(notifications), then subscriptions.map(...) up to
\* the await of Promise.all
SendInsert(r, dbOk, thrown) ==
  /\ sendReqs[r].pc = "loaded"
  /\ thrown \subseteq {row \in sendReqs[r].subs : row.subscription # NoEndpoint}
  /\ IF ~dbOk
       THEN /\ sendReqs' = [sendReqs EXCEPT ![r] = [@ EXCEPT !.pc = "done", !.status = 500]]
            /\ UNCHANGED notifications
       ELSE /\ notifications' = insertNotification(notifications)
            /\ sendReqs' = [sendReqs EXCEPT ![r] =
                 [@ EXCEPT !.pc = "awaiting",
                           !.results = StartDispatches(sendReqs[r].subs, thrown)]]
  /\ UNCHANGED <<pushSubscriptions, clientVars, listVars, configVars>>

\* one webpush.sendNotification promise settles with a status code
DispatchSettle(r, row, statusCode) ==
  /\ sendReqs[r].pc = "awaiting"
  /\ row \in sendReqs[r].subs
  /\ sendReqs[r].results[row] = "pending"
  /\ sendReqs' = [sendReqs EXCEPT ![r].results[row] = SettledValue(statusCode)]
  /\ pushSubscriptions' =
       IF SettledValue(statusCode) = "sent" THEN pushSubscriptions
       ELSE OnDispatchError(pushSubscriptions, row, statusCode)
  /\ UNCHANGED <<notifications, clientVars, listVars, configVars>>

\* send: Promise.all resolved, res.json({success: true, sent})
SendRespond(r) ==
  /\ sendReqs[r].pc = "awaiting"
  /\ \A row \in sendReqs[r].subs : sendReqs[r].results[row] # "pending"
  /\ sendReqs' = [sendReqs EXCEPT ![r] =
       [@ EXCEPT !.pc = "done", !.status = 200, !.sent = successCount(sendReqs[r].results),
                 !.subs = {}, !.results = <<>>]]
  /\ UNCHANGED <<pushSubscriptions, notifications, clientVars, listVars, configVars>>

\* a millisecond passes on the server
ClockTick ==
  /\ clock < MaxClock
  /\ clock' = clock + 1
  /\ UNCHANGED <<serverVars, clientVars, configVars, listResponse>>

\* GET /api/notifications
GetNotifications ==
  /\ NotificationRoutesMounted(vapid)
  /\ \E s \in getNotifications(notifications) :
       listResponse' = [i \in 1..Len(notifications) |-> s[i].id]
  /\ UNCHANGED <<serverVars, clientVars, configVars, clock>>

Next ==
  \/ \E u \in Users \cup {NoUser}, s \in ServerEndpoints : PostSubscribe(u, s)
  \/ \E r \in 1..MaxSends, dbOk \in BOOLEAN : SendLoad(r, dbOk)
  \/ \E r \in 1..MaxSends, dbOk \in BOOLEAN :
       \E thrown \in SUBSET sendReqs[r].subs : SendInsert(r, dbOk, thrown)
  \/ \E r \in 1..MaxSends : \E row \in sendReqs[r].subs :
       \E c \in PushStatusCodes : DispatchSettle(r, row, c)
  \/ \E r \in 1..MaxSends : SendRespond(r)

Spec == InitServer /\ [][Next]_vars

\* the server with or without its keys and clients with any session
SpecConfig == InitConfig /\ [][Next]_vars

\* a stored row is flagged inactive in the database (no route does it)
Deactivate(id) ==
  /\ id \in 1..Len(pushSubscriptions)
  /\ pushSubscriptions[id].active
  /\ pushSubscriptions' = [pushSubscriptions EXCEPT ![id].active = FALSE]
  /\ UNCHANGED <<notifications, sendReqs, clientVars, listVars, configVars>>

\* the server with rows that get flagged inactive, one send at a time
NextDeact ==
  \/ \E u \in Users \cup {NoUser}, s \in ServerEndpoints : PostSubscribe(u, s)
  \/ \E id \in 1..MaxSubs : Deactivate(id)
  \/ \E r \in 1..MaxSends, dbOk \in BOOLEAN : InFlight = {} /\ SendLoad(r, dbOk)
  \/ \E r \in 1..MaxSends, dbOk \in BOOLEAN :
       \E thrown \in SUBSET sendReqs[r].subs : SendInsert(r, dbOk, thrown)
  \/ \E r \in 1..MaxSends : \E row \in sendReqs[r].subs :
       \E c \in PushStatusCodes : DispatchSettle(r, row, c)
  \/ \E r \in 1..MaxSends : SendRespond(r)

SpecDeact == InitServer /\ [][NextDeact]_vars

\* the server with its clock and the listing route
NextList ==
  \/ Next
  \/ ClockTick
  \/ GetNotifications

SpecList == InitServer /\ [][NextList]_vars

(* ------------------------- fan-out properties -------------------------- *)
\* the row with this id as the table holds it now
RowNow(id) == pushSubscriptions[id]

\* every dispatch of request r has settled (Promise.all is resolved)
AllSettled(r) ==
  /\ sendReqs[r].pc = "awaiting"
  /\ \A row \in sendReqs[r].subs : sendReqs[r].results[row] # "pending"

\* the endpoints of request r whose dispatch was answered 410
GoneRows(r) == {row \in sendReqs[r].subs : sendReqs[r].results[row] = "gone"}

\* C1: when M < N of the N dispatches of a send were answered 410 and the
\* rest succeeded, then once all have settled exactly those M endpoints are
\* flagged inactive and the other N-M are still active.
C1_PermanentFailuresDeactivated ==
  \A r \in 1..MaxSends :
    (/\ AllSettled(r)
     /\ Cardinality(GoneRows(r)) < Cardinality(sendReqs[r].subs)
     /\ \A row \in sendReqs[r].subs \ GoneRows(r) : sendReqs[r].results[row] = "sent")
    => \A row \in sendReqs[r].subs : RowNow(row.id).active = (row \notin GoneRows(r))

Attempted == {"pending", "sent", "gone", "failed", "threw"}

C4_ZeroSubscribersRejected ==
  [][\A r \in 1..MaxSends :
      (/\ sendReqs[r].pc = "idle"
       /\ sendReqs'[r].pc # "idle"
       /\ getActivePushSubscriptions(pushSubscriptions) = {})
      => /\ sendReqs'[r].pc = "done"
         /\ sendReqs'[r].status \in {400, 500}
         /\ notifications' = notifications]_vars

\* a send was answered 400 and the table holds no record
C4_Witness ==
  \E r \in 1..MaxSends :
    sendReqs[r].pc = "done" /\ sendReqs[r].status = 400 /\ Len(notifications) = 0

\* the sends that were answered success
Succeeded == {r \in 1..MaxSends : sendReqs[r].pc = "done" /\ sendReqs[r].status = 200}

PermissionCauses == {"denied", "declined", "timeout"}
Causes == PermissionCauses \cup {"platform", "server"}

\* the catch of requestNotificationPermission: whatever was thrown inside
\* its try, the caller gets one message
PermissionError(cause) == "Det gick inte att begära behörighet för notiser"

\* the catch of subscribeToNotifications: its prefix and error.message
SubscribeError(message) == <<"Det gick inte att prenumerera på push-notiser: ", message>>

\* the error a call throws to its caller for a failure
ErrorOf(cause) ==
  SubscribeError(IF cause \in PermissionCauses THEN PermissionError(cause) ELSE cause)

\* the call ends by throwing
Throw(call, cause) ==
  [call EXCEPT !.pc = "done", !.result = "error", !.cause = cause, !.error = ErrorOf(cause)]

\* requestNotificationPermission up to the platform prompt: granted returns,
\* denied throws, default asks the platform; then the rest of the call
BeginSubscribe(call) ==
  IF permission = "granted" THEN [call EXCEPT !.pc = "ready"]
  ELSE IF permission = "denied" THEN Throw(call, "denied")
  ELSE [call EXCEPT !.pc = "prompt"]

\* registration.pushManager.getSubscription(): the live registration or none
getSubscriptionNone(registration) == 0

getSubscription(registration) == registration

\* the calls between their start and their return
CallsInFlight == {c \in 1..MaxCalls : calls[c].pc \notin {"idle", "done"}}

\* subscribeToNotifications(userId) is called
SubscribeStart(c, userId) ==
  /\ calls[c].pc = "idle"
  /\ IF c = 1 THEN TRUE ELSE calls[c - 1].pc # "idle"
  /\ calls' = [calls EXCEPT ![c] =
       BeginSubscribe([@ EXCEPT !.kind = "subscribe", !.userId = userId])]
  /\ UNCHANGED <<serverVars, listVars, configVars, badgeVars, deviceVars, platformSub,
                 endpointSeq, permission, isSubscribed>>

\* the time allowed for a permission prompt, in milliseconds
PromptTimeout == 5000

\* PromptTimeout passes with the prompt unanswered: on an iPhone / iPad the
\* timer resolves the wait as "default" and the call throws its general
\* error; elsewhere the call has no timer and goes on waiting
PromptElapsed(c) ==
  /\ calls[c].pc = "prompt"
  /\ calls' = [calls EXCEPT ![c] =
       IF ios THEN Throw(@, "timeout")
       ELSE [@ EXCEPT !.pc = "overdue"]]
  /\ UNCHANGED <<serverVars, listVars, configVars, badgeVars, deviceVars, platformSub,
                 endpointSeq, permission,
                 isSubscribed>>

\* Notification.requestPermission() resolves with the user's answer
PermissionAnswer(c, answer) ==
  /\ calls[c].pc \in {"prompt", "overdue"}
  /\ LET now == IF permission = "default" THEN answer ELSE permission IN
       /\ permission' = now
       /\ calls' = [calls EXCEPT ![c] =
            IF now = "granted" THEN [@ EXCEPT !.pc = "ready"]
            ELSE Throw(@, "declined")]
  /\ UNCHANGED <<serverVars, listVars, configVars, badgeVars, deviceVars, platformSub,
                 endpointSeq, isSubscribed>>

\* await serviceWorker.ready, await getSubscription(): an existing
\* registration is returned as it is, nothing is posted
SubGetExisting(c) ==
  /\ calls[c].pc = "ready"
  /\ LET existingSubscription == getSubscription(platformSub) IN
       IF existingSubscription # 0
         THEN /\ calls' = [calls EXCEPT ![c] =
                   [@ EXCEPT !.pc = "done", !.result = "ok", !.found = TRUE,
                             !.sub = existingSubscription]]
              /\ isSubscribed' = IF calls[c].kind = "subscribe" THEN TRUE ELSE isSubscribed
         ELSE /\ calls' = [calls EXCEPT ![c] = [@ EXCEPT !.pc = "creating"]]
              /\ UNCHANGED isSubscribed
  /\ UNCHANGED <<serverVars, listVars, configVars, badgeVars, deviceVars, platformSub,
                 endpointSeq, permission>>

\* await pushManager.subscribe(...): the platform creates a registration with
\* a fresh endpoint, or resolves with the one it already holds, or rejects
SubCreate(c, ok) ==
  /\ calls[c].pc = "creating"
  /\ IF ~ok
       THEN /\ calls' = [calls EXCEPT ![c] = Throw(@, "platform")]
            /\ UNCHANGED <<platformSub, endpointSeq>>
       ELSE IF platformSub # 0
         THEN /\ calls' = [calls EXCEPT ![c] = [@ EXCEPT !.pc = "posting", !.sub = platformSub]]
              /\ UNCHANGED <<platformSub, endpointSeq>>
         ELSE /\ endpointSeq' = endpointSeq + 1
              /\ platformSub' = endpointSeq + 1
              /\ calls' = [calls EXCEPT ![c] =
                   [@ EXCEPT !.pc = "posting", !.sub = endpointSeq + 1]]
  /\ UNCHANGED <<serverVars, listVars, configVars, badgeVars, deviceVars, permission, isSubscribed>>

\* await fetch("/api/notifications/subscribe"), then response.ok
SubPost(c, netOk) ==
  /\ calls[c].pc = "posting"
  /\ LET answer == SubscribeHandler(pushSubscriptions, calls[c].userId, calls[c].sub) IN
       IF netOk /\ answer.status = 200
         THEN /\ pushSubscriptions' = answer.table
              /\ calls' = [calls EXCEPT ![c] = [@ EXCEPT !.pc = "done", !.result = "ok"]]
              /\ isSubscribed' = IF calls[c].kind = "subscribe" THEN TRUE ELSE isSubscribed
         ELSE /\ calls' = [calls EXCEPT ![c] = Throw(@, "server")]
              /\ UNCHANGED <<pushSubscriptions, isSubscribed>>
  /\ UNCHANGED <<notifications, sendReqs, listVars, configVars, badgeVars, deviceVars,
                 platformSub, endpointSeq,
                 permission>>

\* refreshSubscription: returns at once unless isSubscribed; await
\* serviceWorker.ready, await getSubscription()
RefreshStart(c, userId) ==
  /\ calls[c].pc = "idle"
  /\ IF c = 1 THEN TRUE ELSE calls[c - 1].pc # "idle"
  /\ isSubscribed
  /\ LET currentSubscription == getSubscription(platformSub) IN
       calls' = [calls EXCEPT ![c] =
         IF currentSubscription # 0
           THEN [@ EXCEPT !.kind = "refresh", !.userId = userId, !.pc = "unsub",
                          !.old = currentSubscription]
           ELSE BeginSubscribe([@ EXCEPT !.kind = "refresh", !.userId = userId])]
  /\ UNCHANGED <<serverVars, listVars, configVars, badgeVars, deviceVars, platformSub,
                 endpointSeq, permission, isSubscribed>>

\* await currentSubscription.unsubscribe(), then subscribeToNotifications()
RefreshUnsubscribe(c) ==
  /\ calls[c].pc = "unsub"
  /\ platformSub' = IF platformSub = calls[c].old THEN 0 ELSE platformSub
  /\ calls' = [calls EXCEPT ![c] = BeginSubscribe(@)]
  /\ UNCHANGED <<serverVars, listVars, configVars, badgeVars, deviceVars, endpointSeq,
                 permission, isSubscribed>>

\* the notifications view mounts: setIsSubscribed(!!subscription)
ViewMount ==
  /\ isSubscribed' = (getSubscription(platformSub) # 0)
  /\ UNCHANGED <<serverVars, listVars, configVars, badgeVars, deviceVars, platformSub,
                 endpointSeq, permission, calls>>

\* the steps of a call once it has started
CallStep ==
  \/ \E c \in 1..MaxCalls, answer \in {"granted", "denied", "default"} :
       PermissionAnswer(c, answer)
  \/ \E c \in 1..MaxCalls : PromptElapsed(c)
  \/ \E c \in 1..MaxCalls : SubGetExisting(c)
  \/ \E c \in 1..MaxCalls, ok \in BOOLEAN : SubCreate(c, ok)
  \/ \E c \in 1..MaxCalls, netOk \in BOOLEAN : SubPost(c, netOk)
  \/ \E c \in 1..MaxCalls : RefreshUnsubscribe(c)
  \/ ViewMount

\* calls may overlap
NextSub ==
  \/ \E c \in 1..MaxCalls, u \in Users \cup {NoUser} : SubscribeStart(c, u)
  \/ \E c \in 1..MaxCalls, u \in Users \cup {NoUser} : RefreshStart(c, u)
  \/ CallStep

SpecSub == Init /\ [][NextSub]_vars

\* one call after the other: a call starts when no other is in progress
NextSubSeq ==
  \/ \E c \in 1..MaxCalls, u \in Users \cup {NoUser} :
       CallsInFlight = {} /\ SubscribeStart(c, u)
  \/ \E c \in 1..MaxCalls, u \in Users \cup {NoUser} :
       CallsInFlight = {} /\ RefreshStart(c, u)
  \/ CallStep

SpecSubSeq == Init /\ [][NextSubSeq]_vars

(* --------------------- subscription properties ------------------------- *)
\* the stored rows whose subscription is the registration with endpoint e
RowsFor(e) == {row \in Rows(pushSubscriptions) : row.subscription = e}

\* C8: with one call after the other, a subscribe on a device that already
\* holds a registration stores nothing more: every registration the device
\* ever held is stored at most once.
C8_IdempotentSubscribe ==
  \A e \in 1..endpointSeq : Cardinality(RowsFor(e)) <= 1

\* two subscribe calls in a row, the second on the registration the first
\* stored: one row
C8_Witness ==
  \E c1, c2 \in 1..MaxCalls :
    /\ c1 < c2
    /\ calls[c1].kind = "subscribe" /\ calls[c1].pc = "done" /\ calls[c1].result = "ok"
    /\ calls[c2].kind = "subscribe" /\ calls[c2].pc = "done" /\ calls[c2].result = "ok"
    /\ ~calls[c1].found /\ calls[c2].found
    /\ calls[c2].sub = platformSub
    /\ Cardinality(RowsFor(platformSub)) = 1
    /\ Len(pushSubscriptions) = 1

\* C9: subscribe calls that overlap create at most one registration and
\* store no two rows with the same endpoint descriptor.
C9_OverlappingSubscribesDoNotRace ==
  (\A c \in 1..MaxCalls : calls[c].kind # "refresh") =>
    /\ endpointSeq <= 1
    /\ \A r1, r2 \in Rows(pushSubscriptions) :
         r1.id # r2.id => r1.subscription # r2.subscription

\* C10: after a sequence of subscribe and refresh calls, the subscribe
\* calls having returned without error, the device has exactly one active
\* stored endpoint, the registration it holds now.
C10_OneActiveEndpointPerDevice ==
  (/\ CallsInFlight = {}
   /\ \E c \in 1..MaxCalls : calls[c].pc = "done"
   /\ \A c \in 1..MaxCalls :
        (calls[c].pc = "done" /\ calls[c].kind = "subscribe") => calls[c].result = "ok")
  => LET active == getActivePushSubscriptions(pushSubscriptions) IN
       /\ Cardinality(active) = 1
       /\ \A row \in active : row.subscription = platformSub

(* ------------------------------- badge --------------------------------- *)
(* One installed app with one open view.  The server list only grows      *)
(* here; a platform call resolves (ok) or rejects.  On an iPhone or iPad   *)
(* the library makes up to three attempts at a platform badge call, which  *)
(* the page buttons model attempt by attempt; for the other callers ok is  *)
(* the outcome of the attempts taken together.                             *)

\* isBadgingSupported(): 'setAppBadge' in navigator || 'clearAppBadge' in
\* navigator
isBadgingSupportedAlways(has) == TRUE

isBadgingSupported(has) == has

\* attempts the library makes at one platform badge call
MaxAttemptsMore(isIOS) == 4

MaxAttempts(isIOS) == IF isIOS THEN 3 ELSE 1

\* the attempts are made in turn until one resolves
Succeeds(outcomes, isIOS) == \E attempt \in 1..MaxAttempts(isIOS) : outcomes[attempt]

\* the outcomes the platform may give to the attempts of one call
Outcomes == [1..3 -> BOOLEAN]

clearAppBadgeKeep(current, ok, who) ==
  [badge |-> current,
   by |-> IF ok THEN who ELSE badgeBy,
   ok |-> ok,
   toWorker |-> IF ok THEN <<[type |-> "BADGE_CLEARED"]>>
                ELSE <<>>]

\* clearAppBadge(): on success the badge is removed and BADGE_CLEARED is
\* posted to the worker; on failure the error is rethrown to the caller
clearAppBadge(current, ok, who) ==
  IF ~isBadgingSupported(badging)
  THEN [badge |-> current, by |-> badgeBy, ok |-> TRUE, toWorker |-> <<>>]
  ELSE [badge |-> IF ok THEN 0 ELSE current,
        by |-> IF ok THEN who ELSE badgeBy,
        ok |-> ok,
        toWorker |-> IF ok THEN <<[type |-> "BADGE_CLEARED"]>>
                     ELSE <<>>]

\* setAppBadge(count): 0 clears; otherwise one platform call (BADGE_SET, which
\* the worker only echoes, is not queued)
setAppBadge(current, count, ok, who) ==
  IF ~isBadgingSupported(badging)
  THEN [badge |-> current, by |-> badgeBy, ok |-> TRUE, toWorker |-> <<>>]
  ELSE IF count = 0 THEN clearAppBadge(current, ok, who)
  ELSE [badge |-> IF ok THEN count ELSE current,
        by |-> IF ok THEN who ELSE badgeBy,
        ok |-> ok,
        toWorker |-> <<>>]

\* the worker's fetch handler answering the view's GET /api/notifications:
\* a cached response is returned as it is and refreshed behind it; without
\* one the network answers and the answer is stored
FetchViaWorker(stored, len, netOk) ==
  IF stored # NoCache
  THEN [ok |-> TRUE, count |-> stored, cache |-> IF netOk THEN len ELSE stored]
  ELSE IF netOk THEN [ok |-> TRUE, count |-> len, cache |-> len]
       ELSE [ok |-> FALSE, count |-> 0, cache |-> stored]

\* updateBadge() of the push handler: the count taken from the answer
BadgeCountOne(notificationsData) == 1

BadgeCount(notificationsData) ==
  IF notificationsData.array THEN Len(notificationsData.items) ELSE 1

\* updateBadge() of the notificationclick handler
ClickCount(notificationsData) ==
  IF notificationsData.array THEN Len(notificationsData.items) ELSE 0

\* queryFn of the notifications page: the list it returns, counted
PageCount(data) == Len(IF ~data.array THEN <<>> ELSE data.items)

\* the view's SW_ACTIVATED branch: the length, or a clear
ResyncCount(data) ==
  IF data.array /\ Len(data.items) > 0 THEN Len(data.items) ELSE 0

\* the view's SHOW_NOTIFICATION branch
ShowCount(data) == IF data.array THEN Len(data.items) ELSE 1

\* onSubmit of the admin page
AdminCount(notificationsData) ==
  IF notificationsData.array THEN Len(notificationsData.items) ELSE 0

\* the count a consumer derives from a body
CountOf(consumer, body) ==
  CASE consumer = "push" -> BadgeCount(body)
    [] consumer = "click" -> ClickCount(body)
    [] consumer = "page" -> PageCount(body)
    [] consumer = "resync" -> ResyncCount(body)
    [] consumer = "show" -> ShowCount(body)
    [] consumer = "admin" -> AdminCount(body)

\* showNotification() of the push handler: the native display resolves or
\* throws (the error is only logged); after a display that resolved, an
\* iPhone / iPad worker also posts SHOW_NOTIFICATION to the window clients
showNotification(nativeOk, isIOS) ==
  [native |-> nativeOk, fallback |-> nativeOk /\ isIOS]

\* a notification record is stored and, when the device's dispatch succeeds,
\* a push message is on its way to the device
BroadcastSent(delivered) ==
  /\ Len(notifications) < MaxRecords
  /\ notifications' = insertNotification(notifications)
  /\ pushOps' = IF delivered
                THEN [pushOps EXCEPT ![Len(notifications) + 1].pc = "sent"]
                ELSE pushOps
  /\ sinceSend' = FALSE
  /\ UNCHANGED <<pushSubscriptions, sendReqs, listVars, configVars, subVars, deviceVars,
                 badge, cache, resyncOps, inbox, swInbox, badgeBy>>

\* push event: showNotification() runs and updateBadge() starts and requests
\* the list.  The platform displays only with permission granted; with it,
\* the display can still throw on an iPhone / iPad
PushReceived(p, nativeOk) ==
  /\ pushOps[p].pc = "sent"
  /\ nativeOk => permission = "granted"
  /\ nativeOk \/ ios \/ permission # "granted"
  /\ displayFailed' = (displayFailed \/ ~showNotification(nativeOk, ios).native)
  /\ pushOps' = [pushOps EXCEPT ![p].pc = "fetching"]
  /\ sinceSend' = TRUE
  /\ IF showNotification(nativeOk, ios).fallback
     THEN /\ Len(inbox) < MaxMsgs
          /\ inbox' = Append(inbox, [type |-> "SHOW_NOTIFICATION", count |-> 0, op |-> 0])
     ELSE inbox' = inbox
  /\ UNCHANGED <<serverVars, listVars, configVars, subVars, ios, libVars, showOp, reprompted, toast,
                 badge, cache, resyncOps, swInbox, badgeBy>>

\* the server answers the worker's own request (it bypasses the fetch
\* handler); a failed request ends updateBadge() without a write
PushFetch(p, ok) ==
  /\ pushOps[p].pc = "fetching"
  /\ pushOps' = IF ok
                THEN [pushOps EXCEPT ![p].pc = "fetched",
                                     ![p].count = BadgeCount(ListAnswer(notifications))]
                ELSE [pushOps EXCEPT ![p] = IdlePush]
  /\ UNCHANGED <<serverVars, listVars, configVars, subVars, deviceVars, badge, cache,
                 resyncOps, inbox, swInbox, badgeBy,
                 sinceSend>>

\* method 1: the worker sets the badge itself, errors are swallowed
PushSetBadge(p, ok) ==
  /\ pushOps[p].pc = "fetched"
  /\ badge' = IF ok THEN pushOps[p].count ELSE badge
  /\ badgeBy' = IF ok THEN [kind |-> "push", truthful |-> FALSE] ELSE badgeBy
  /\ pushOps' = [pushOps EXCEPT ![p].pc = "set"]
  /\ UNCHANGED <<serverVars, listVars, configVars, subVars, deviceVars, cache, resyncOps,
                 inbox, swInbox, sinceSend>>

\* method 2: UPDATE_BADGE{count} is posted to the window clients, if any
PushNotify(p, open) ==
  /\ pushOps[p].pc = "set"
  /\ Len(inbox) < MaxMsgs
  /\ inbox' = IF open
              THEN Append(inbox, [type |-> "UPDATE_BADGE", count |-> pushOps[p].count,
                                  op |-> 0])
              ELSE inbox
  /\ pushOps' = [pushOps EXCEPT ![p] = IdlePush]
  /\ UNCHANGED <<serverVars, listVars, configVars, subVars, deviceVars, badge, cache,
                 resyncOps, swInbox, badgeBy, sinceSend>>

\* the view's message listener, UPDATE_BADGE branch
ViewUpdateBadge(ok) ==
  /\ inbox # <<>>
  /\ Head(inbox).type = "UPDATE_BADGE"
  /\ LET msg == Head(inbox)
         who == [kind |-> "push", truthful |-> FALSE]
         res == IF msg.count > 0 THEN setAppBadge(badge, msg.count, ok, who)
                ELSE clearAppBadge(badge, ok, who)
     IN /\ Len(swInbox) + Len(res.toWorker) <= MaxMsgs
        /\ badge' = res.badge
        /\ badgeBy' = res.by
        /\ swInbox' = swInbox \o res.toWorker
  /\ inbox' = Tail(inbox)
  /\ UNCHANGED <<serverVars, listVars, configVars, subVars, deviceVars, cache, pushOps,
                 resyncOps, sinceSend>>

\* activate event: the worker claims the clients and posts SW_ACTIVATED
SwActivated(a) ==
  /\ resyncOps[a].pc = "none"
  /\ IF a = 1 THEN TRUE ELSE resyncOps[a - 1].pc # "none"
  /\ Len(inbox) < MaxMsgs
  /\ inbox' = Append(inbox, [type |-> "SW_ACTIVATED", count |-> 0, op |-> a])
  /\ resyncOps' = [resyncOps EXCEPT ![a].pc = "posted"]
  /\ UNCHANGED <<serverVars, listVars, configVars, subVars, deviceVars, badge, cache,
                 pushOps, swInbox, badgeBy, sinceSend>>

\* the view's message listener, SW_ACTIVATED branch: the list is requested
ResyncStart ==
  /\ inbox # <<>>
  /\ Head(inbox).type = "SW_ACTIVATED"
  /\ resyncOps' = [resyncOps EXCEPT ![Head(inbox).op].pc = "fetching"]
  /\ inbox' = Tail(inbox)
  /\ sinceSend' = TRUE
  /\ UNCHANGED <<serverVars, listVars, configVars, subVars, deviceVars, badge, cache,
                 pushOps, swInbox, badgeBy>>

\* the view's request is answered through the worker's fetch handler; a
\* failed request ends the handler without a write
ResyncFetch(a, netOk) ==
  /\ resyncOps[a].pc = "fetching"
  /\ LET res == FetchViaWorker(cache, Len(notifications), netOk)
     IN /\ cache' = res.cache
        /\ resyncOps' = IF res.ok
                        THEN [resyncOps EXCEPT ![a].pc = "fetched",
                                               ![a].count = res.count,
                                               ![a].truthful = (res.count = Len(notifications))]
                        ELSE [resyncOps EXCEPT ![a].pc = "done"]
  /\ UNCHANGED <<serverVars, listVars, configVars, subVars, deviceVars, badge, pushOps,
                 inbox, swInbox, badgeBy, sinceSend>>

\* the badge is set to the length of the list received, or cleared
ResyncSetBadge(a, ok) ==
  /\ resyncOps[a].pc = "fetched"
  /\ LET who == [kind |-> "resync", truthful |-> resyncOps[a].truthful]
         res == IF resyncOps[a].count > 0
                THEN setAppBadge(badge, resyncOps[a].count, ok, who)
                ELSE clearAppBadge(badge, ok, who)
     IN /\ Len(swInbox) + Len(res.toWorker) <= MaxMsgs
        /\ badge' = res.badge
        /\ badgeBy' = res.by
        /\ swInbox' = swInbox \o res.toWorker
        /\ resyncOps' = [resyncOps EXCEPT ![a] = [IdleResync EXCEPT !.pc = "done"]]
  /\ UNCHANGED <<serverVars, listVars, configVars, subVars, deviceVars, cache, pushOps,
                 inbox, sinceSend>>

\* the notifications page is visited: after 500 ms the badge is cleared and,
\* when that succeeded, the worker is told a second time
PageVisitClear(ok) ==
  LET who == [kind |-> "clear", truthful |-> FALSE]
      res == clearAppBadge(badge, ok, who)
      told == IF res.ok THEN res.toWorker \o res.toWorker ELSE <<>>
  IN /\ Len(swInbox) + Len(told) <= MaxMsgs
     /\ badge' = res.badge
     /\ badgeBy' = res.by
     /\ swInbox' = swInbox \o told
     /\ sinceSend' = TRUE
     /\ UNCHANGED <<serverVars, listVars, configVars, subVars, deviceVars, cache, pushOps,
                    resyncOps, inbox>>

\* visibilitychange with visibilityState = 'visible' on the notifications
\* page: the same clearing, no list is requested
VisibilityClear(ok) ==
  LET who == [kind |-> "visibility", truthful |-> FALSE]
      res == clearAppBadge(badge, ok, who)
      told == IF res.ok THEN res.toWorker \o res.toWorker ELSE <<>>
  IN /\ Len(swInbox) + Len(told) <= MaxMsgs
     /\ badge' = res.badge
     /\ badgeBy' = res.by
     /\ swInbox' = swInbox \o told
     /\ sinceSend' = TRUE
     /\ UNCHANGED <<serverVars, listVars, configVars, subVars, deviceVars, cache, pushOps,
                    resyncOps, inbox>>

\* the worker's message listener, BADGE_CLEARED branch (no other window
\* client to forward UPDATE_BADGE{0} to)
SwBadgeCleared(ok) ==
  /\ swInbox # <<>>
  /\ badge' = IF ok THEN 0 ELSE badge
  /\ badgeBy' = IF ok THEN [kind |-> "clear", truthful |-> FALSE] ELSE badgeBy
  /\ swInbox' = Tail(swInbox)
  /\ UNCHANGED <<serverVars, listVars, configVars, subVars, deviceVars, cache, pushOps,
                 resyncOps, inbox, sinceSend>>

\* the clear button of the notifications page: clearAppBadge(), then a
\* toast, a destructive one when the call has thrown
ClearBadge(outcomes) ==
  LET who == [kind |-> "clear", truthful |-> FALSE]
      res == clearAppBadge(badge, Succeeds(outcomes, ios), who)
  IN /\ Len(swInbox) + Len(res.toWorker) <= MaxMsgs
     /\ badge' = res.badge
     /\ badgeBy' = res.by
     /\ swInbox' = swInbox \o res.toWorker
     /\ toast' = IF res.ok THEN "done" ELSE "destructive"
     /\ sinceSend' = TRUE
     /\ UNCHANGED <<serverVars, listVars, configVars, subVars, ios, libVars, showOp, reprompted, displayFailed,
                    cache, pushOps, resyncOps, inbox>>

\* the badge the test button sets
TestBadge == 3

\* the test button of the notifications page: setAppBadge(3), then a toast,
\* a destructive one when the call has thrown
SetTestBadge(outcomes) ==
  LET who == [kind |-> "test", truthful |-> FALSE]
      res == setAppBadge(badge, TestBadge, Succeeds(outcomes, ios), who)
  IN /\ badge' = res.badge
     /\ badgeBy' = res.by
     /\ toast' = IF res.ok THEN "done" ELSE "destructive"
     /\ UNCHANGED <<serverVars, listVars, configVars, subVars, ios, libVars, showOp, reprompted, displayFailed,
                    cache, pushOps, resyncOps, inbox, swInbox, sinceSend>>

\* the badge the view falls back to when its own display throws
FailedDisplayBadge == 1

\* the view's message listener, SHOW_NOTIFICATION branch, up to its first
\* request: without permission it asks the platform for it (the platform
\* prompts only from "default"), then it displays with new Notification();
\* on an iPhone / iPad a display that threw sets the badge to a fixed value
\* and one that succeeded goes on to request the list
ShowStart(answer, nativeOk, ok) ==
  /\ inbox # <<>>
  /\ Head(inbox).type = "SHOW_NOTIFICATION"
  /\ showOp = IdlePush
  /\ LET perm == IF permission = "default" THEN answer ELSE permission
         shown == perm = "granted" /\ nativeOk
     IN /\ permission' = perm
        /\ reprompted' = (reprompted \/ permission = "denied")
        /\ showOp' = IF shown /\ ios THEN [pc |-> "fetching", count |-> 0]
                      ELSE IdlePush
        /\ badge' = IF ~shown /\ ios /\ ok THEN FailedDisplayBadge ELSE badge
        /\ badgeBy' = IF ~shown /\ ios /\ ok
                       THEN [kind |-> "show", truthful |-> FALSE]
                       ELSE badgeBy
  /\ inbox' = Tail(inbox)
  /\ UNCHANGED <<serverVars, listVars, configVars, platformSub, endpointSeq, isSubscribed,
                 calls, ios, libVars, toast,
                 displayFailed, cache, pushOps, resyncOps, swInbox, sinceSend>>

\* the list request of the SHOW_NOTIFICATION branch, answered through the
\* worker's fetch handler; a failed request ends the branch without a write
ShowFetch(netOk) ==
  /\ showOp.pc = "fetching"
  /\ LET res == FetchViaWorker(cache, Len(notifications), netOk)
     IN /\ cache' = res.cache
        /\ showOp' = IF res.ok THEN [pc |-> "fetched", count |-> res.count]
                      ELSE IdlePush
  /\ UNCHANGED <<serverVars, listVars, configVars, subVars, ios, libVars, reprompted, displayFailed, toast,
                 badge, pushOps, resyncOps, inbox, swInbox, badgeBy, sinceSend>>

\* navigator.setAppBadge(count) of the SHOW_NOTIFICATION branch; a rejection
\* is caught and logged
ShowSetBadge(ok) ==
  /\ showOp.pc = "fetched"
  /\ badge' = IF ok THEN showOp.count ELSE badge
  /\ badgeBy' = IF ok THEN [kind |-> "show", truthful |-> FALSE] ELSE badgeBy
  /\ showOp' = IdlePush
  /\ UNCHANGED <<serverVars, listVars, configVars, subVars, ios, libVars, reprompted, displayFailed, toast,
                 cache, pushOps, resyncOps, inbox, swInbox, sinceSend>>

\* the user changes the notification permission in the browser's settings
SettingsChange(p) ==
  /\ permission # p
  /\ permission' = p
  /\ UNCHANGED <<serverVars, listVars, configVars, platformSub, endpointSeq, isSubscribed, calls,
                 badgeVars, deviceVars>>

NextBadge ==
  \/ \E delivered \in BOOLEAN : BroadcastSent(delivered)
  \/ \E p \in 1..MaxRecords, nativeOk \in BOOLEAN : PushReceived(p, nativeOk)
  \/ \E p \in 1..MaxRecords, ok \in BOOLEAN : PushFetch(p, ok)
  \/ \E p \in 1..MaxRecords, ok \in BOOLEAN : PushSetBadge(p, ok)
  \/ \E p \in 1..MaxRecords, open \in BOOLEAN : PushNotify(p, open)
  \/ \E ok \in BOOLEAN : ViewUpdateBadge(ok)
  \/ \E a \in 1..MaxActivations : SwActivated(a)
  \/ ResyncStart
  \/ \E a \in 1..MaxActivations, netOk \in BOOLEAN : ResyncFetch(a, netOk)
  \/ \E a \in 1..MaxActivations, ok \in BOOLEAN : ResyncSetBadge(a, ok)
  \/ \E ok \in BOOLEAN : PageVisitClear(ok)
  \/ \E ok \in BOOLEAN : VisibilityClear(ok)
  \/ \E ok \in BOOLEAN : SwBadgeCleared(ok)

SpecBadge == InitBadge /\ [][NextBadge]_vars

(* ------------------ several views and the worker ---------------------- *)
(* The views of one installed app share its badge.  The worker answers     *)
(* every message with an ECHO_RESPONSE to its source, and the library      *)
(* posts BADGE_SET after a set; no listener and no branch of the worker    *)
(* acts on either, so they are not queued here.                            *)

\* the messages between the views and the worker that are not handled yet
RECURSIVE InViews(_)
InViews(v) == IF v = 0 THEN 0 ELSE Len(viewInbox[v]) + InViews(v - 1)

MessagesInFlight == InViews(MaxViews) + Len(workerInbox)

\* one listener's UPDATE_BADGE branch: set the count, or clear for 0
ListenerWriteAdd(current, count, ok) ==
  setAppBadge(current, current + count, ok, [kind |-> "push", truthful |-> FALSE])

ListenerWrite(current, count, ok) ==
  LET who == [kind |-> "push", truthful |-> FALSE] IN
    IF count > 0 THEN setAppBadge(current, count, ok, who)
    ELSE clearAppBadge(current, ok, who)

\* the first k listeners of a view run on one message, one after the other
RECURSIVE RunListeners(_, _, _, _)
RunListeners(k, current, count, outcomes) ==
  IF k = 0 THEN [badge |-> current, toWorker |-> <<>>, wrote |-> FALSE]
  ELSE LET prev == RunListeners(k - 1, current, count, outcomes)
           res == ListenerWrite(prev.badge, count, outcomes[k])
       IN [badge |-> res.badge,
           toWorker |-> prev.toWorker \o res.toWorker,
           wrote |-> prev.wrote \/ outcomes[k]]

\* the messages of a view, with the view as their source
From(v, msgs) == [i \in 1..Len(msgs) |-> [type |-> msgs[i].type, source |-> v]]

\* a view calls clearAppBadge() of the library
ViewsClear(v, ok) ==
  /\ LET res == clearAppBadge(badge, ok, [kind |-> "clear", truthful |-> FALSE])
     IN /\ MessagesInFlight + Len(res.toWorker) <= MaxMsgs
        /\ badge' = res.badge
        /\ badgeBy' = res.by
        /\ workerInbox' = workerInbox \o From(v, res.toWorker)
  /\ UNCHANGED <<serverVars, listVars, subVars, deviceVars, cache, pushOps, resyncOps,
                 inbox, swInbox, sinceSend, vapid, session, countVars,
                 viewInbox, listeners, handled>>

\* updateBadge() of the worker's push handler: the badge is set from the
\* worker and UPDATE_BADGE is posted to every view
WorkerUpdate(count, ok) ==
  /\ MessagesInFlight + MaxViews <= MaxMsgs
  /\ badge' = IF ok THEN count ELSE badge
  /\ badgeBy' = IF ok THEN [kind |-> "push", truthful |-> FALSE] ELSE badgeBy
  /\ viewInbox' = [v \in Views |->
                     Append(viewInbox[v], [type |-> "UPDATE_BADGE", count |-> count])]
  /\ UNCHANGED <<serverVars, listVars, subVars, deviceVars, cache, pushOps, resyncOps,
                 inbox, swInbox, sinceSend, vapid, session, countVars,
                 workerInbox, listeners, handled>>

\* a view's listeners handle UPDATE_BADGE
ViewsReceive(v, outcomes) ==
  /\ viewInbox[v] # <<>>
  /\ LET msg == Head(viewInbox[v])
         run == RunListeners(listeners, badge, msg.count, outcomes)
     IN /\ MessagesInFlight - 1 + Len(run.toWorker) <= MaxMsgs
        /\ badge' = run.badge
        /\ badgeBy' = IF run.wrote THEN [kind |-> "push", truthful |-> FALSE] ELSE badgeBy
        /\ workerInbox' = workerInbox \o From(v, run.toWorker)
        /\ handled' = [view |-> v, count |-> msg.count, before |-> badge,
                       wrote |-> run.wrote]
  /\ viewInbox' = [viewInbox EXCEPT ![v] = Tail(@)]
  /\ UNCHANGED <<serverVars, listVars, subVars, deviceVars, cache, pushOps, resyncOps,
                 inbox, swInbox, sinceSend, vapid, session, countVars, listeners>>

\* the worker's message handler, BADGE_CLEARED: it clears the badge itself
\* and posts UPDATE_BADGE{count: 0} to every view but the source
WorkerReceive(ok) ==
  /\ workerInbox # <<>>
  /\ MessagesInFlight - 1 + (MaxViews - 1) <= MaxMsgs
  /\ badge' = IF ok THEN 0 ELSE badge
  /\ badgeBy' = IF ok THEN [kind |-> "clear", truthful |-> FALSE] ELSE badgeBy
  /\ viewInbox' = [v \in Views |->
                     IF v # Head(workerInbox).source
                     THEN Append(viewInbox[v], [type |-> "UPDATE_BADGE", count |-> 0])
                     ELSE viewInbox[v]]
  /\ workerInbox' = Tail(workerInbox)
  /\ UNCHANGED <<serverVars, listVars, subVars, deviceVars, cache, pushOps, resyncOps,
                 inbox, swInbox, sinceSend, vapid, session, countVars, listeners,
                 handled>>

\* the handling of the messages in flight
RelayStep ==
  \/ \E v \in Views, outcomes \in [1..MaxListeners -> BOOLEAN] : ViewsReceive(v, outcomes)
  \/ \E ok \in BOOLEAN : WorkerReceive(ok)

NextViews ==
  \/ \E v \in Views, ok \in BOOLEAN : ViewsClear(v, ok)
  \/ \E count \in 1..MaxCount, ok \in BOOLEAN : WorkerUpdate(count, ok)
  \/ RelayStep

SpecViews == InitViews /\ [][NextViews]_vars

\* a clear or a push begins only when the messages of the one before it
\* have all been handled; every message in flight is handled in the end
NextRelay ==
  \/ \E v \in Views, ok \in BOOLEAN : MessagesInFlight = 0 /\ ViewsClear(v, ok)
  \/ \E count \in 1..MaxCount, ok \in BOOLEAN :
       MessagesInFlight = 0 /\ WorkerUpdate(count, ok)
  \/ RelayStep

SpecRelay == InitBadge /\ [][NextRelay]_vars /\ WF_vars(RelayStep)

(* ------------------- consumers of the notification list ---------------- *)
\* a consumer reads the answered body and derives its count
Derive(consumer) ==
  /\ derived[consumer] = NoCount
  /\ derived' = [derived EXCEPT ![consumer] = CountOf(consumer, listBody)]
  /\ UNCHANGED <<serverVars, listVars, clientVars, vapid, session, listBody, viewsVars>>

NextCount == \E consumer \in Consumers : Derive(consumer)

SpecCount == InitCount /\ [][NextCount]_vars

(* ---------------------- the badge library, stepwise --------------------- *)
\* setAppBadge(count) or clearAppBadge() is called: without the Badging API
\* it returns at once; setAppBadge(0) goes on as clearAppBadge()
LibCall(op, count) ==
  /\ lib.pc \in {"idle", "returned", "thrown"}
  /\ op = "clear" => count = 0
  /\ lib' = IF ~isBadgingSupported(badging)
            THEN [IdleLib EXCEPT !.op = op, !.count = count, !.pc = "returned"]
            ELSE [IdleLib EXCEPT !.op = IF count = 0 THEN "clear" ELSE op,
                                 !.count = count, !.pc = "trying", !.attempt = 1]
  /\ UNCHANGED <<serverVars, listVars, configVars, subVars, badgeVars, ios, badging, showOp,
                 reprompted, displayFailed, toast>>

\* one attempt: navigator.setAppBadge(count) / navigator.clearAppBadge()
\* resolves, or rejects and the loop waits or rethrows on the final attempt
LibAttempt(ok) ==
  /\ lib.pc = "trying"
  /\ lib' = [lib EXCEPT !.calls = @ + 1,
                        !.pc = IF ok THEN "notify"
                               ELSE IF lib.attempt < MaxAttempts(ios) THEN "waiting"
                               ELSE "thrown"]
  /\ badge' = IF ~ok THEN badge ELSE IF lib.op = "set" THEN lib.count ELSE 0
  /\ badgeBy' = IF ok THEN [kind |-> "lib", truthful |-> FALSE] ELSE badgeBy
  /\ UNCHANGED <<serverVars, listVars, configVars, subVars, ios, badging, showOp, reprompted,
                 displayFailed, toast, cache, pushOps, resyncOps, inbox, swInbox,
                 sinceSend>>

\* the 100 ms wait before the next attempt
LibBackoff ==
  /\ lib.pc = "waiting"
  /\ lib' = [lib EXCEPT !.pc = "trying", !.attempt = @ + 1]
  /\ UNCHANGED <<serverVars, listVars, configVars, subVars, badgeVars, ios, badging, showOp,
                 reprompted, displayFailed, toast>>

\* after a success BADGE_SET / BADGE_CLEARED is posted to the controlling
\* worker, if there is one, and the call returns
LibNotify(controlled) ==
  /\ lib.pc = "notify"
  /\ lib' = [lib EXCEPT !.pc = "returned", !.told = controlled]
  /\ UNCHANGED <<serverVars, listVars, configVars, subVars, badgeVars, ios, badging, showOp,
                 reprompted, displayFailed, toast>>

\* a call in progress takes its next step
LibStep ==
  \/ \E ok \in BOOLEAN : LibAttempt(ok)
  \/ LibBackoff
  \/ \E controlled \in BOOLEAN : LibNotify(controlled)

NextLib ==
  \/ \E op \in {"set", "clear"}, count \in 0..MaxCount : LibCall(op, count)
  \/ LibStep

SpecLib == InitLib /\ [][NextLib]_vars

\* the platform settles every call and the timer of the wait fires
SpecLibFair == SpecLib /\ WF_vars(LibStep)

\* the push handler and the notifications page with its clear button
NextPage ==
  \/ \E delivered \in BOOLEAN : BroadcastSent(delivered)
  \/ \E p \in 1..MaxRecords, nativeOk \in BOOLEAN : PushReceived(p, nativeOk)
  \/ \E p \in 1..MaxRecords, ok \in BOOLEAN : PushFetch(p, ok)
  \/ \E p \in 1..MaxRecords, ok \in BOOLEAN : PushSetBadge(p, ok)
  \/ \E p \in 1..MaxRecords, open \in BOOLEAN : PushNotify(p, open)
  \/ \E ok \in BOOLEAN : ViewUpdateBadge(ok)
  \/ \E ok \in BOOLEAN : PageVisitClear(ok)
  \/ \E ok \in BOOLEAN : VisibilityClear(ok)
  \/ \E outcomes \in Outcomes : ClearBadge(outcomes)
  \/ \E ok \in BOOLEAN : SwBadgeCleared(ok)

SpecPage == InitBadge /\ [][NextPage]_vars

\* the same device, an iPhone / iPad or not, with the view's display of
\* SHOW_NOTIFICATION and the user's permission settings
NextDevice ==
  \/ NextBadge
  \/ \E answer \in {"granted", "denied"}, nativeOk \in BOOLEAN, ok \in BOOLEAN :
       ShowStart(answer, nativeOk, ok)
  \/ \E netOk \in BOOLEAN : ShowFetch(netOk)
  \/ \E ok \in BOOLEAN : ShowSetBadge(ok)
  \/ \E p \in {"granted", "denied"} : SettingsChange(p)

SpecDevice == InitDevice /\ [][NextDevice]_vars

\* the notifications page with both its buttons, on a device of either kind
NextButtons ==
  \/ NextPage
  \/ \E outcomes \in Outcomes : SetTestBadge(outcomes)
  \/ \E answer \in {"granted", "denied"}, nativeOk \in BOOLEAN, ok \in BOOLEAN :
       ShowStart(answer, nativeOk, ok)
  \/ \E netOk \in BOOLEAN : ShowFetch(netOk)
  \/ \E ok \in BOOLEAN : ShowSetBadge(ok)

SpecButtons == InitDevice /\ [][NextButtons]_vars

(* -------------------------- badge properties --------------------------- *)
\* nothing is in progress on the device and no message is in flight
Quiescent ==
  /\ \A p \in 1..MaxRecords : pushOps[p] = IdlePush
  /\ \A a \in 1..MaxActivations : resyncOps[a].pc \in {"none", "done"}
  /\ showOp = IdlePush
  /\ inbox = <<>>
  /\ swInbox = <<>>

\* C6: when a push handler's badge update to N races with a resync to M, the
\* true list length, and the resync is the logically later operation (the
\* server answered it from a newer list, so N < M), the badge ends as M
\* whatever the order in which the two writes arrive: the late write of the
\* push handler never replaces the value the resync wrote.
C6_LateIncrementNeverOverwritesResync ==
  [][ ~( /\ badgeBy.kind = "resync"
         /\ badgeBy.truthful
         /\ badgeBy'.kind = "push"
         /\ badge' < badge ) ]_vars

\* C7: once nothing is sent any more, a trigger (push received, view opened,
\* visibility change, clear, resync) has started after the last send and
\* everything on the device has run to its end, the badge equals the length
\* of the server's notification list.
C7_BadgeConvergesToListLength ==
  (Quiescent /\ sinceSend) => badge = Len(notifications)

\* C22: POST /api/notifications/send stores a record and fans out only after
\* it has validated an admin's session: a request from a client without
\* one creates no notification record and dispatches to no endpoint.
C22_SendRequiresAdmin ==
  session # "admin"
  => /\ notifications = <<>>
     /\ \A r \in 1..MaxSends : sendReqs[r].pc \notin {"loaded", "awaiting"}

\* C23: when a VAPID key is absent the push feature is switched off
\* gracefully: the notification routes are mounted all the same, and a send
\* is answered as not configured, not as a route that does not exist.
C23_RoutesMountedWithoutKeys ==
  ~vapid
  => \A r \in 1..MaxSends :
       sendReqs[r].pc = "done" => sendReqs[r].status # RouteMissing

\* the stored rows that are flagged inactive
InactiveRows == {row \in Rows(pushSubscriptions) : ~row.active}

\* C16: a stored endpoint flagged inactive is left out of every later fan-out
\* and is never made active again: a send that loads its subscribers takes
\* none of the rows that are inactive at that moment, and no step of a send
\* or a subscribe turns the active flag of a row from false to true.
C16_InactiveExcludedNeverResurrected ==
  [][ /\ \A r \in 1..MaxSends :
           (sendReqs[r].pc = "idle" /\ sendReqs'[r].pc # "idle")
           => \A row \in InactiveRows : row \notin sendReqs'[r].subs
      /\ \A id \in 1..Len(pushSubscriptions) :
           ~pushSubscriptions[id].active => ~pushSubscriptions'[id].active ]_vars

\* a send has loaded its subscribers while a row was inactive, and goes on
\* with the active ones only
C16_Witness ==
  \E r \in 1..MaxSends :
    /\ sendReqs[r].pc \in {"loaded", "awaiting"}
    /\ sendReqs[r].subs # {}
    /\ \E row \in InactiveRows :
         \A sub \in sendReqs[r].subs : sub.id < row.id

\* C15: for any sequence of sends, GET /api/notifications answers in strict
\* newest-first order: a record created by a later send (a larger serial id)
\* comes before every record created by an earlier send.
C15_ListStrictlyNewestFirst ==
  \A i, j \in 1..Len(listResponse) : i < j => listResponse[i] > listResponse[j]

\* C13: a permission prompt that never resolves makes requestPermission()
\* reject within the bound of 5 seconds on every platform: no call is still
\* waiting for the prompt once that time has passed.
C13_PromptNeverOutlivesTimeout ==
  \A c \in 1..MaxCalls : calls[c].pc # "overdue"

\* C14: while the permission is denied the platform is never asked for it
\* again without the user acting: requestPermission() throws at once, and no
\* other path, the handling of incoming notification messages included,
\* requests the permission.
C14_NoRequestWhileDenied == ~reprompted

\* the worker's push handler moves from one step to the next
PushStep(p, from, to) == pushOps[p].pc = from /\ pushOps'[p].pc = to

\* C17 as stated: on each push received the working count is incremented by
\* exactly 1 and the badge is set to the new value: for every prior count c,
\* the handler attempts to set the badge to c + 1.
C17_PushIncrementsByOne ==
  [][ \A p \in 1..MaxRecords :
        PushStep(p, "fetched", "set") => pushOps[p].count = badge + 1 ]_vars

\* C17, amended: on each push received the handler requests the notification
\* list and attempts to set the badge to the length of the list the server
\* answered, whatever the prior count: the badge is left as it was or becomes
\* that length.
C17_PushSetsListLength ==
  [][ \A p \in 1..MaxRecords :
        /\ PushStep(p, "fetching", "fetched")
           => pushOps'[p].count = Len(notifications)
        /\ PushStep(p, "fetched", "set")
           => badge' \in {badge, pushOps[p].count} ]_vars

\* a push handler has set the badge to a list length of two
C17_Witness ==
  /\ badgeBy.kind = "push"
  /\ badge = 2
  /\ Len(notifications) = 2

\* C18: when the user opens the notification list view or clears, the badge
\* is set directly to 0: as long as the clear is the last write to the badge,
\* the badge is 0.
C18_ClearSetsZero ==
  badgeBy.kind = "clear" => badge = 0

\* a clear was the last write while the list holds a record
C18_Witness ==
  /\ badgeBy.kind = "clear"
  /\ Len(notifications) > 0
  /\ toast = "done"

\* C19: on a visibility change to foreground the count is derived anew as
\* the length of the notification list fetched from the server at that
\* moment, and the badge is set to it: the write of the visibility handler
\* leaves the badge equal to the length of the server's list.
C19_VisibilityResyncsToListLength ==
  [][ (badgeBy'.kind = "visibility" /\ badgeBy.kind # "visibility")
      => badge' = Len(notifications') ]_vars

\* C20: a failing platform badge call is always swallowed after the bounded
\* retries: setAppBadge and clearAppBadge never raise to their caller, so a
\* failed badge update never surfaces as an error shown to the user.
C20_BadgeFailureNeverShown == toast # "destructive"

\* C24: every consumer of GET /api/notifications (the views and the worker)
\* treats a body that is not an array as an empty list: the count it
\* derives from it is 0.
C24_NonArrayCountsZero ==
  \A consumer \in Consumers :
    (~listBody.array /\ derived[consumer] # NoCount) => derived[consumer] = 0

\* C25: the failures of the subscription flow are distinct error kinds:
\* two calls that failed for different reasons (prompt timed out, permission
\* already denied, user declined, ...) threw errors the caller can tell
\* apart.
C25_DistinctErrorKinds ==
  \A c, d \in 1..MaxCalls :
    (/\ calls[c].result = "error"
     /\ calls[d].result = "error"
     /\ calls[c].cause # calls[d].cause) => calls[c].error # calls[d].error

\* C28: whenever subscribeToNotifications returns a registration without
\* error, that registration is stored on the server as an active endpoint,
\* also when the registration existed on the platform before the call and
\* when the call is made by a refresh.
C28_ReturnedRegistrationIsStored ==
  \A c \in 1..MaxCalls :
    calls[c].result = "ok" =>
      \E row \in getActivePushSubscriptions(pushSubscriptions) :
        row.subscription = calls[c].sub

\* C27: a GET /api/notifications issued by a view the worker controls is
\* answered with the server's current list, never with an older cached
\* response: the count a resync has got from it is the length of the
\* server's list at the time of the request.
C27_ViewFetchIsFresh ==
  \A a \in 1..MaxActivations :
    resyncOps[a].pc = "fetched" => resyncOps[a].truthful

\* C26: a single badge clear produces only finitely many messages between
\* the views and the worker: whenever a badge message is in flight, the
\* system reaches a state with no badge message in flight.
C26_ClearChainTerminates ==
  (MessagesInFlight > 0) ~> (MessagesInFlight = 0)

\* C29: when a view receives UPDATE_BADGE{count: n}, the badge is set to
\* exactly n (cleared for n = 0) whatever its value was and however many
\* listeners the view has; it keeps its value only when every platform call
\* of the listeners was rejected.
C29_UpdateBadgeSetsCount ==
  [][ \A v \in Views :
        (viewInbox[v] # <<>> /\ viewInbox'[v] = Tail(viewInbox[v]))
        => /\ handled'.count = Head(viewInbox[v]).count
           /\ handled'.before = badge
           /\ badge' = IF handled'.wrote THEN handled'.count ELSE badge ]_vars

\* a view with more than one listener has set a badge of 1 to 2
C29_Witness ==
  /\ listeners > 1
  /\ handled.wrote
  /\ handled.before > 0
  /\ handled.count > handled.before
  /\ badge = handled.count

\* C21: on a platform without badge support every badge operation (set with
\* any count, clear) returns at once and changes nothing: no platform call
\* is made, nothing is retried or thrown, the badge is left alone and no
\* message goes to the worker.
C21_UnsupportedIsNoOp ==
  [][ ~badging => /\ badge' = badge
                  /\ lib'.calls = 0
                  /\ lib'.pc \in {"idle", "returned"}
                  /\ ~lib'.told ]_vars

\* a set has returned on a platform without badge support
C21_Witness ==
  /\ ~badging
  /\ lib.op = "set"
  /\ lib.count > 0
  /\ lib.pc = "returned"

\* C30: a badge set or clear retries the failing platform call a bounded
\* number of times and then gives up: a call makes at most 3 platform
\* attempts on an iPhone / iPad and at most 1 elsewhere, makes none after an
\* attempt has succeeded, and always comes to its end.
C30_BoundedRetries ==
  /\ [](lib.calls <= IF ios THEN 3 ELSE 1)
  /\ [][ /\ lib.pc = "notify" => lib'.calls = lib.calls
         /\ lib.pc = "returned" => lib'.calls \in {lib.calls, 0} ]_vars
  /\ (lib.pc \in {"trying", "waiting", "notify"}) ~> (lib.pc \in {"returned", "thrown"})

\* on an iPhone / iPad a call has returned after its second attempt succeeded
C30_Witness ==
  /\ ios
  /\ lib.pc = "returned"
  /\ lib.calls = 2

(* ------------------------- display properties ------------------------- *)
\* the badge the view's SHOW_NOTIFICATION branch sets after a display that
\* succeeded, with its request and its platform call succeeding
SuccessBadge == FetchViaWorker(cache, Len(notifications), TRUE).count

\* the view's SHOW_NOTIFICATION branch ends at once with a badge write: its
\* display failed on an iPhone / iPad
FailedDisplayWrite ==
  /\ inbox # <<>>
  /\ Head(inbox).type = "SHOW_NOTIFICATION"
  /\ inbox' = Tail(inbox)
  /\ showOp' = IdlePush
  /\ badge' # badge

\* C11: when the native display is forced to fail, the fallback presenter
\* leaves the badge in the state a successful display would leave it in for
\* the same payload and the same prior state: the badge it writes is the
\* one the successful display writes from that state.
C11_FallbackBadgeEqualsNativeBadge ==
  [][ FailedDisplayWrite => badge' = SuccessBadge ]_vars

\* C12: whenever the platform does not show the native notification of a
\* received push (the display call throwing included), the push is handed to
\* the open view, which renders the in-app alert: the step in which a
\* display fails posts SHOW_NOTIFICATION to the view.
C12_FailedDisplayHandedToView ==
  [][ (~displayFailed /\ displayFailed')
      => /\ Len(inbox') = Len(inbox) + 1
         /\ inbox'[Len(inbox')].type = "SHOW_NOTIFICATION" ]_vars

====
